---- MODULE Spec2Model ----
(***************************************************************************)
(* Model of server/core/ice-service.js: the Service base class             *)
(* (publishActions, toJSON, populateModels, resolveID, resolveModel) and   *)
(* the ServiceLoader transport registration (registerSockets,              *)
(* registerGraphQLSchema).                                                 *)
(*                                                                         *)
(* Two specifications share the variables:                                 *)
(*   SpecPublish  route derivation and transport binding of one service    *)
(*   Spec         one resolveModel call (lookup, population, shaping) or   *)
(*                one direct toJSON call on a service                      *)
(***************************************************************************)
EXTENDS Integers, Sequences, FiniteSets, TLC

VARIABLES
    settings,       \* this.settings of the service
    collection,     \* this.collection: [decodeID |-> is schema.methods.decodeID a function]
    actions,        \* this.schema.actions / service.actions, in declaration order
    lastSchema,     \* value returned by the latest publishActions call
    prevSchema,     \* value returned by the publishActions call before that
    publishCount,   \* number of publishActions calls so far
    sockets,        \* one entry per channel connection: the events bound on that socket
    resolvers,      \* query resolvers bound by registerGraphQLSchema
    pc,             \* position of the current resolveModel / toJSON call
    params,         \* ctx.params of the current call
    lookups,        \* store queries issued by the current call
    docs,           \* value flowing through the promise chain of resolveModel
    calls,          \* sub-invocations issued by populateModels (ctx.call), in issue order
    subStatus,      \* per sub-invocation: "pending", "ok" or "failed"
    popDocs,        \* the docs argument populateModels was called with
    settled,        \* per sub-invocation: what it settled with (Undef while pending)
    settleOrder,    \* the sub-invocations in the order in which they settled
    cause,          \* the rejection reason Promise.all passed on
    check,          \* arguments of a direct checkModel / checkModelOwner call
    transport,      \* the call a transport handler is serving
    err,            \* error the call was rejected with
    result,         \* value the call was resolved with
    tjIn,           \* docs argument of the direct toJSON call
    tjFilter,       \* propFilter argument of the direct toJSON call
    tjOut           \* value returned by the direct toJSON call

publishVars == <<actions, lastSchema, prevSchema, publishCount, sockets, resolvers>>
callVars == <<pc, params, lookups, docs, calls, subStatus, popDocs, settled, settleOrder, cause, check,
              transport, err, result, tjIn, tjFilter, tjOut>>
vars == <<settings, collection, publishVars, callVars>>

(***************************************************************************)
(* Bounds                                                                  *)
(***************************************************************************)
NumActions == 2     \* actions declared by the service
MaxPublish == 2     \* publishActions calls
MaxSockets == 1     \* channel connections
MaxDocs == 2        \* entities returned by one store query

(***************************************************************************)
(* JavaScript values                                                       *)
(***************************************************************************)
\* undefined, for string-valued optional fields
Undefined == "undefined"

\* a || b on string-valued optional fields
Or(a, b) == IF a # Undefined THEN a ELSE b

\* String.prototype.toLowerCase on the method names in use
ToLowerCase(s) ==
    CASE s = "PUT" -> "put"
      [] s = "GET" -> "get"
      [] s = "POST" -> "post"
      [] OTHER -> s

\* undefined / null, for values of the tagged form [t |-> kind, v |-> value]
Undef == [t |-> "undef"]

ROLE_USER == "user"

ServiceName == "docs"

(***************************************************************************)
(* Action declarations (this.schema.actions)                               *)
(***************************************************************************)
KeyNames == <<"find", "rename", "remove", "list">>

\* publish = TRUE stands for "publish is not false" (undefined or true)
ActionDecls ==
    { [isFunc |-> TRUE, name |-> Undefined, permission |-> Undefined, role |-> Undefined,
       publish |-> TRUE, defaultMethod |-> Undefined, needModel |-> FALSE],
      [isFunc |-> FALSE, name |-> Undefined, permission |-> Undefined, role |-> Undefined,
       publish |-> TRUE, defaultMethod |-> Undefined, needModel |-> FALSE],
      [isFunc |-> FALSE, name |-> Undefined, permission |-> Undefined, role |-> "admin",
       publish |-> TRUE, defaultMethod |-> "PUT", needModel |-> TRUE],
      [isFunc |-> FALSE, name |-> "search", permission |-> "owner", role |-> Undefined,
       publish |-> TRUE, defaultMethod |-> "get", needModel |-> FALSE],
      [isFunc |-> FALSE, name |-> Undefined, permission |-> Undefined, role |-> Undefined,
       publish |-> FALSE, defaultMethod |-> "post", needModel |-> FALSE] }

\* the name an action is published under
EffectiveName(a) == Or(a.name, a.key)

\* the services the model starts from: NumActions declarations under distinct names
Declared(i, d) ==
    [key |-> KeyNames[i], isFunc |-> d.isFunc, name |-> d.name, permission |-> d.permission,
     role |-> d.role, publish |-> d.publish, defaultMethod |-> d.defaultMethod,
     needModel |-> d.needModel]

InitialActions ==
    { acts \in { [i \in 1..NumActions |-> Declared(i, f[i])] : f \in [1..NumActions -> ActionDecls] } :
        \A i, j \in 1..NumActions : i # j => EffectiveName(acts[i]) # EffectiveName(acts[j]) }

PublishSettings ==
    { [rest |-> r, ws |-> w, graphql |-> g, namespace |-> nv[1], version |-> nv[2],
       hashedIdentity |-> h, permission |-> p, role |-> ro,
       modelPropFilter |-> Undef, modelPopulates |-> Undef] :
        r \in BOOLEAN, w \in BOOLEAN, g \in BOOLEAN, h \in BOOLEAN,
        nv \in {<<Undefined, 0>>, <<"api", 1>>},
        p \in {Undefined, "loggedIn"}, ro \in {Undefined, "guest"} }

(***************************************************************************)
(* Service.publishActions                                                  *)
(***************************************************************************)
\* an idParamName that ignores hashedIdentity
IdParamNameAlwaysId(hashedIdentity) == "id"

\* idParamName: this.settings.hashedIdentity ? "code" : "id"
IdParamName(hashedIdentity) == IF hashedIdentity THEN "code" ELSE "id"

\* the path segment `:${schema.idParamName}`
ParamSegment(idParamName) == IF idParamName = "code" THEN ":code" ELSE ":id"

\* namespace: this.settings.namespace || this.name
Namespace == Or(settings.namespace, ServiceName)

\* a route list kept from the previous publish instead of a fresh one
RestInitKept == IF lastSchema.published THEN lastSchema.rest ELSE <<>>

\* schema.rest = { routes: [] }
RestInit == <<>>

\* action = isFunction(handler) ? { handler } : handler
AsAction(h) ==
    IF h.isFunc
    THEN [h EXCEPT !.name = Undefined, !.permission = Undefined, !.role = Undefined,
                   !.publish = TRUE, !.defaultMethod = Undefined, !.needModel = FALSE]
    ELSE h

\* the defaults written into the action object
Normalize(a) ==
    [a EXCEPT !.name = Or(a.name, a.key),
              !.permission = Or(a.permission, settings.permission),
              !.role = Or(Or(a.role, settings.role), ROLE_USER)]

\* actionCallName: `${this.name}.${action.name}`
ActionCallName(a) == <<ServiceName, a.name>>

\* addRoute: routes[insert ? "unshift" : "push"]({...})
AddRoute(routes, a, method, path, insert) ==
    LET r == [method |-> method, path |-> path, action |-> ActionCallName(a),
              permission |-> a.permission, role |-> a.role]
    IN IF insert THEN <<r>> \o routes ELSE Append(routes, r)

\* the REST routes of one (normalized) action, added to routes
AddActionRoutes(routes, a, ns, idParamName) ==
    LET r1 == AddRoute(routes, a, "get", <<ns, a.name>>, TRUE)
        r2 == AddRoute(r1, a, "post", <<ns, a.name>>, TRUE)
        r3 == AddRoute(r2, a, "get", <<ns, ParamSegment(idParamName), a.name>>, TRUE)
        r4 == AddRoute(r3, a, "post", <<ns, ParamSegment(idParamName), a.name>>, TRUE)
    IN IF a.defaultMethod # Undefined
       THEN IF a.needModel
            THEN AddRoute(r4, a, ToLowerCase(a.defaultMethod), <<ns, ParamSegment(idParamName)>>, FALSE)
            ELSE AddRoute(r4, a, ToLowerCase(a.defaultMethod), <<ns>>, FALSE)
       ELSE r4

\* schema.ws.routes.push({...})
AddWsRoute(routes, a, ns) ==
    Append(routes, [path |-> <<ns, a.name>>, action |-> ActionCallName(a),
                    permission |-> a.permission, role |-> a.role])

\* _.forIn(this.schema.actions, ...): acc = [rest, ws, acts] after the first i-1 actions
RECURSIVE PublishLoop(_, _)
PublishLoop(i, acc) ==
    IF i > Len(acc.acts) THEN acc
    ELSE LET action == AsAction(acc.acts[i])
             a == Normalize(action)
         IN IF action.publish = FALSE THEN PublishLoop(i + 1, acc)
            ELSE PublishLoop(i + 1,
                   [rest |-> IF settings.rest
                             THEN AddActionRoutes(acc.rest, a, Namespace, IdParamName(settings.hashedIdentity))
                             ELSE acc.rest,
                    ws |-> IF settings.ws THEN AddWsRoute(acc.ws, a, Namespace) ELSE acc.ws,
                    acts |-> IF acc.acts[i].isFunc THEN acc.acts
                             ELSE [acc.acts EXCEPT ![i] = a]])

\* the resolver bindings declared by the service (this.schema.graphql.resolvers):
\* one per declared action plus one naming an action the service does not have
GraphQLResolvers ==
    { [name |-> KeyNames[i], target |-> KeyNames[i]] : i \in 1..NumActions }
        \cup { [name |-> "ghost", target |-> "missing"] }

NoSchema == [published |-> FALSE]

Published(loop) ==
    [published |-> TRUE,
     namespace |-> Namespace,
     version |-> settings.version,
     hashedIdentity |-> settings.hashedIdentity,
     idParamName |-> IdParamName(settings.hashedIdentity),
     hasRest |-> settings.rest,
     rest |-> loop.rest,
     hasWs |-> settings.ws,
     ws |-> loop.ws,
     graphql |-> IF settings.graphql THEN GraphQLResolvers ELSE {}]

\* publishActions(), called from the "www.listen" listener the constructor
\* registers when rest, ws or graphql is enabled
PublishActions ==
    /\ settings.rest \/ settings.ws \/ settings.graphql
    /\ publishCount < MaxPublish
    /\ LET loop == PublishLoop(1, [rest |-> RestInit, ws |-> <<>>, acts |-> actions])
       IN /\ actions' = loop.acts
          /\ lastSchema' = Published(loop)
          /\ prevSchema' = lastSchema
    /\ publishCount' = publishCount + 1
    /\ UNCHANGED <<settings, collection, sockets, resolvers, callVars>>

(***************************************************************************)
(* ServiceLoader.registerSockets / registerGraphQLSchema                   *)
(***************************************************************************)
\* a connection that binds the plain event names only
SocketEventsPlainOnly ==
    { [version |-> 0, cmd |-> <<Namespace, EffectiveName(actions[i])>>, action |-> actions[i].key] :
        i \in 1..Len(actions) }

\* the events one connection binds: cmd, and "/v" + version + cmd if the
\* service has a version
SocketEvents ==
    LET cmd(a) == <<Namespace, EffectiveName(a)>>
    IN { [version |-> 0, cmd |-> cmd(actions[i]), action |-> actions[i].key] : i \in 1..Len(actions) }
       \cup { [version |-> settings.version, cmd |-> cmd(actions[i]), action |-> actions[i].key] :
                 i \in { j \in 1..Len(actions) : settings.version # 0 } }

\* io.on("connection", ...) of a service with ws !== false
Connection ==
    /\ settings.ws
    /\ Len(sockets) < MaxSockets
    /\ sockets' = Append(sockets, SocketEvents)
    /\ UNCHANGED <<settings, collection, actions, lastSchema, prevSchema, publishCount,
                   resolvers, callVars>>

\* processResolvers: a resolver is bound when it names an action of the service
RegisterGraphQLSchema ==
    /\ settings.graphql
    /\ resolvers = {}
    /\ resolvers' = { r \in GraphQLResolvers :
                        \E i \in 1..Len(actions) : actions[i].key = r.target }
    /\ UNCHANGED <<settings, collection, actions, lastSchema, prevSchema, publishCount,
                   sockets, callVars>>

\* no call in progress
NoParams == [t |-> "none"]

\* no transport call in progress
NoCall ==
    [pc |-> "idle", kind |-> Undefined, action |-> Undefined, version |-> 0,
     hasCallback |-> FALSE, trace |-> <<>>, failedAt |-> Undefined, error |-> Undefined,
     json |-> Undef, reply |-> Undef, logged |-> <<>>, emitted |-> <<>>]

IdleCall ==
    /\ pc = "idle" /\ params = NoParams /\ lookups = <<>> /\ docs = Undef
    /\ calls = <<>> /\ subStatus = <<>> /\ popDocs = Undef /\ err = Undefined /\ result = Undef
    /\ tjIn = Undef /\ tjFilter = Undef /\ tjOut = Undef
    /\ settled = <<>> /\ settleOrder = <<>> /\ cause = Undefined /\ check = Undef

InitPublish ==
    /\ settings \in PublishSettings
    /\ collection = [decodeID |-> FALSE]
    /\ actions \in InitialActions
    /\ lastSchema = NoSchema
    /\ prevSchema = NoSchema
    /\ publishCount = 0
    /\ sockets = <<>>
    /\ resolvers = {}
    /\ transport = NoCall
    /\ IdleCall

NextPublish == PublishActions \/ Connection \/ RegisterGraphQLSchema

SpecPublish == InitPublish /\ [][NextPublish]_vars

(***************************************************************************)
(* The handlers bound by registerSockets and registerGraphQLSchema          *)
(*                                                                         *)
(* transport.pc is the link of the promise chain that runs next.  The      *)
(* outcome of ctx.resolveModel, ctx.checkPermission and action.handler is  *)
(* chosen freely: each either fulfils or rejects with an error of its own. *)
(***************************************************************************)
Stages == <<"resolveModel", "checkPermission", "handler">>

\* the errors a stage may reject with
StageErrors(stage) ==
    CASE stage = "resolveModel" -> {"ModelNotFound"}
      [] stage = "checkPermission" -> {"Unauthorized", "Forbidden"}
      [] stage = "handler" -> {"HandlerError"}

\* a chain whose links run whatever the outcome of the one before
AfterStageRecovering(kind, stage, ok) ==
    CASE stage = "resolveModel" -> "checkPermission"
      [] stage = "checkPermission" -> "handler"
      [] stage = "handler" -> IF kind = "socket" THEN "respond" ELSE "emit"

\* the link that runs after a .then() stage: the next .then() when the stage
\* fulfilled, the .catch() when it rejected
AfterStage(kind, stage, ok) ==
    IF ~ok THEN "catch"
    ELSE CASE stage = "resolveModel" -> "checkPermission"
           [] stage = "checkPermission" -> "handler"
           [] stage = "handler" -> IF kind = "socket" THEN "respond" ELSE "emit"

\* a client emits a bound event, with or without an acknowledgement callback
SocketRequest ==
    /\ transport.pc \in {"idle", "done", "rejected"}
    /\ \E s \in 1..Len(sockets) : \E e \in sockets[s] : \E cb \in BOOLEAN :
          transport' = [NoCall EXCEPT !.pc = "resolveModel", !.kind = "socket",
                                      !.action = e.action, !.version = e.version,
                                      !.hasCallback = cb, !.emitted = <<"request">>]
    /\ UNCHANGED <<settings, collection, publishVars, pc, params, lookups, docs, calls,
                   subStatus, popDocs, settled, settleOrder, cause, check, err, result, tjIn, tjFilter, tjOut>>

\* the GraphQL executor calls a bound resolver
GraphQLRequest ==
    /\ transport.pc \in {"idle", "done", "rejected"}
    /\ \E r \in resolvers :
          transport' = [NoCall EXCEPT !.pc = "resolveModel", !.kind = "graphql",
                                      !.action = r.target, !.emitted = <<"request">>]
    /\ UNCHANGED <<settings, collection, publishVars, pc, params, lookups, docs, calls,
                   subStatus, popDocs, settled, settleOrder, cause, check, err, result, tjIn, tjFilter, tjOut>>

\* one of the three .then() stages of the chain
RunStage(stage) ==
    /\ transport.pc = stage
    /\ \E ok \in BOOLEAN : \E e \in StageErrors(stage) :
          transport' = [transport EXCEPT
                          !.trace = Append(@, stage),
                          !.pc = AfterStage(transport.kind, stage, ok),
                          !.failedAt = IF ok THEN @ ELSE stage,
                          !.error = IF ok THEN @ ELSE e,
                          !.json = IF ok /\ stage = "handler"
                                   THEN [t |-> "json", v |-> transport.action] ELSE @]
    /\ UNCHANGED <<settings, collection, publishVars, pc, params, lookups, docs, calls,
                   subStatus, popDocs, settled, settleOrder, cause, check, err, result, tjIn, tjFilter, tjOut>>

ResolveModelStage == RunStage("resolveModel")

CheckPermissionStage == RunStage("checkPermission")

HandlerStage == RunStage("handler")

\* .then(json => { if (_.isFunction(callback)) callback(response.json(null, json)) })
SocketRespond ==
    /\ transport.pc = "respond" /\ transport.kind = "socket"
    /\ transport' = [transport EXCEPT
                       !.reply = IF transport.hasCallback THEN transport.json ELSE @,
                       !.pc = "emit"]
    /\ UNCHANGED <<settings, collection, publishVars, pc, params, lookups, docs, calls,
                   subStatus, popDocs, settled, settleOrder, cause, check, err, result, tjIn, tjFilter, tjOut>>

\* .catch(err => { logger.error(err); if (_.isFunction(callback)) callback(response.json(null, null, err)) })
SocketCatch ==
    /\ transport.pc = "catch" /\ transport.kind = "socket"
    /\ transport' = [transport EXCEPT
                       !.logged = Append(@, transport.error),
                       !.reply = IF transport.hasCallback
                                 THEN [t |-> "error", v |-> transport.error] ELSE @,
                       !.pc = "emit"]
    /\ UNCHANGED <<settings, collection, publishVars, pc, params, lookups, docs, calls,
                   subStatus, popDocs, settled, settleOrder, cause, check, err, result, tjIn, tjFilter, tjOut>>

\* .then(() => { self.emit("response", ctx) })
SocketEmitResponse ==
    /\ transport.pc = "emit" /\ transport.kind = "socket"
    /\ transport' = [transport EXCEPT !.emitted = Append(@, "response"), !.pc = "done"]
    /\ UNCHANGED <<settings, collection, publishVars, pc, params, lookups, docs, calls,
                   subStatus, popDocs, settled, settleOrder, cause, check, err, result, tjIn, tjFilter, tjOut>>

\* a catch that logs the error and does not throw it again
GraphQLCatchSwallowed ==
    /\ transport.pc = "catch" /\ transport.kind = "graphql"
    /\ transport' = [transport EXCEPT !.logged = Append(@, transport.error), !.pc = "emit"]
    /\ UNCHANGED <<settings, collection, publishVars, pc, params, lookups, docs, calls,
                   subStatus, popDocs, settled, settleOrder, cause, check, err, result, tjIn, tjFilter, tjOut>>

\* .catch(err => { logger.error(err); throw err; }): the promise handed to the
\* executor rejects with err and the last .then() is skipped
GraphQLCatch ==
    /\ transport.pc = "catch" /\ transport.kind = "graphql"
    /\ transport' = [transport EXCEPT
                       !.logged = Append(@, transport.error),
                       !.reply = [t |-> "error", v |-> transport.error],
                       !.pc = "rejected"]
    /\ UNCHANGED <<settings, collection, publishVars, pc, params, lookups, docs, calls,
                   subStatus, popDocs, settled, settleOrder, cause, check, err, result, tjIn, tjFilter, tjOut>>

\* .then(json => { self.emit("response", ctx); return json; })
GraphQLEmitResponse ==
    /\ transport.pc = "emit" /\ transport.kind = "graphql"
    /\ transport' = [transport EXCEPT
                       !.emitted = Append(@, "response"),
                       !.reply = transport.json,
                       !.pc = "done"]
    /\ UNCHANGED <<settings, collection, publishVars, pc, params, lookups, docs, calls,
                   subStatus, popDocs, settled, settleOrder, cause, check, err, result, tjIn, tjFilter, tjOut>>

\* the services the transports are registered for
ServeSettings ==
    { st \in PublishSettings :
        ~st.rest /\ ~st.hashedIdentity /\ st.permission = Undefined /\ st.role = Undefined }

InitServe ==
    /\ settings \in ServeSettings
    /\ collection = [decodeID |-> FALSE]
    /\ actions \in InitialActions
    /\ lastSchema = NoSchema
    /\ prevSchema = NoSchema
    /\ publishCount = 0
    /\ sockets = <<>>
    /\ resolvers = {}
    /\ transport = NoCall
    /\ IdleCall

NextServe ==
    \/ Connection
    \/ RegisterGraphQLSchema
    \/ SocketRequest
    \/ GraphQLRequest
    \/ ResolveModelStage
    \/ CheckPermissionStage
    \/ HandlerStage
    \/ SocketRespond
    \/ SocketCatch
    \/ SocketEmitResponse
    \/ GraphQLCatch
    \/ GraphQLEmitResponse

SpecServe == InitServe /\ [][NextServe]_vars

(***************************************************************************)
(* Entities, identifiers and filters                                       *)
(*                                                                         *)
(* Values are tagged: "one" a single identifier, "seq" an array of         *)
(* identifiers, "str0" the empty string, "code"/"codes" encoded            *)
(* identifiers, "model"/"models" store documents, "doc"/"docs" plain       *)
(* objects, "map" an object keyed by identifier, "true"/"str"/"list" a     *)
(* propFilter.  An entity is a record; DOMAIN gives the keys it has.       *)
(***************************************************************************)
One(i) == [t |-> "one", v |-> i]
Ids(s) == [t |-> "seq", v |-> s]
Doc(e) == [t |-> "doc", v |-> e]
Docs(s) == [t |-> "docs", v |-> s]

\* a null member of an array of identifiers; identifiers are 1, 2, ...
Null == 0

\* the documents of the collection (two versions for each identifier)
Entities ==
    { [id |-> 1, name |-> "a", author |-> One(1), tags |-> Ids(<<1, 2>>)],
      [id |-> 1, name |-> "c", author |-> One(2), tags |-> Ids(<<2, 2>>)],
      [id |-> 2, name |-> "b", tags |-> Ids(<<>>)],
      [id |-> 2, name |-> "d", tags |-> Ids(<<2, Null>>)] }

\* doc[field]
Get(doc, field) == IF field \in DOMAIN doc THEN doc[field] ELSE Undef

\* doc[field] = value
Put(doc, field, value) ==
    [f \in DOMAIN doc \cup {field} |-> IF f = field THEN value ELSE doc[f]]

\* _.pick(doc, fields)
Pick(doc, fields) ==
    [f \in DOMAIN doc \cap { fields[i] : i \in 1..Len(fields) } |-> doc[f]]

\* String.prototype.split(" ") on the filters in use
Split(str) ==
    CASE str = "id name" -> <<"id", "name">>
      [] str = "name tags" -> <<"name", "tags">>
      [] OTHER -> <<str>>

\* schema.methods.decodeID on the codes in use
DecodeID(code) ==
    CASE code = "c1" -> One(1)
      [] code = "c2" -> One(2)
      [] OTHER -> Undef

\* the population schema of the service (settings.modelPopulates)
PopulateSchema ==
    [t |-> "schema",
     v |-> << [field |-> "author", action |-> "users.get"],
              [field |-> "editor", action |-> "users.get"],
              [field |-> "tags", action |-> "tags.get"] >>]

\* the entity a target action returns for an identifier
Populated(action, i) == [id |-> i, name |-> action]

(***************************************************************************)
(* Service.toJSON                                                          *)
(***************************************************************************)
\* a filter test that is always taken
HasFilterAlways(pf) == TRUE

\* propFilter != null
HasFilter(pf) == pf.t # "undef"

ToJSON(d, propFilter) ==
    LET pf1 == IF propFilter.t = "undef" THEN settings.modelPropFilter ELSE propFilter
        pf2 == IF pf1.t = "str" THEN [t |-> "list", v |-> Split(pf1.v)] ELSE pf1
        func(doc) == IF pf2.t # "undef"
                     THEN Pick(doc, IF pf2.t = "list" THEN pf2.v ELSE <<"true">>)
                     ELSE doc
    IN IF d.t = "docs" THEN Docs([i \in 1..Len(d.v) |-> func(d.v[i])])
       ELSE IF d.t = "doc" THEN Doc(func(d.v))
       ELSE Undef

(***************************************************************************)
(* Service.resolveID                                                       *)
(***************************************************************************)
\* truthiness of a params value
Truthy(x) == x.t \notin {"undef", "str0"}

ResolveID(p) ==
    IF Truthy(p.code) /\ settings.hashedIdentity
    THEN IF collection.decodeID
         THEN IF p.code.t = "codes"
              THEN Ids([i \in 1..Len(p.code.v) |-> DecodeID(p.code.v[i]).v])
              ELSE DecodeID(p.code.v)
         ELSE p.id
    ELSE p.id

(***************************************************************************)
(* Service.populateModels                                                  *)
(***************************************************************************)
\* _.compact
Compact(vs) == SelectSeq(vs, Truthy)

\* _.flattenDeep on a list of identifiers and arrays of identifiers
RECURSIVE FlattenDeep(_)
FlattenDeep(vs) ==
    IF vs = <<>> THEN <<>>
    ELSE (IF Head(vs).t = "seq" THEN Head(vs).v ELSE <<Head(vs).v>>) \o FlattenDeep(Tail(vs))

\* _.uniq: first occurrences, in order
RECURSIVE Uniq(_)
Uniq(s) ==
    IF s = <<>> THEN <<>>
    ELSE LET rest == Uniq(SubSeq(s, 1, Len(s) - 1))
             x == s[Len(s)]
         IN IF \E i \in 1..Len(rest) : rest[i] = x THEN rest ELSE Append(rest, x)

\* items = _.isArray(docs) ? docs : [docs]
Items(d) == IF d.t = "docs" THEN d.v ELSE <<d.v>>

\* idList of one schema field
IdList(d, field) ==
    Uniq(FlattenDeep(Compact([i \in 1..Len(Items(d)) |-> Get(Items(d)[i], field)])))

\* a call issued for every schema entry
ShouldCallAlways(idList) == TRUE

\* idList.length > 0
ShouldCall(idList) == Len(idList) > 0

\* _.isString(actionName)
IsString(actionName) == actionName \in STRING

\* _.forIn(populateSchema, ...): the ctx.call sub-invocations, in issue order
RECURSIVE IssueCalls(_, _, _)
IssueCalls(d, schema, k) ==
    IF k > Len(schema) THEN <<>>
    ELSE LET idList == IdList(d, schema[k].field)
         IN (IF IsString(schema[k].action) /\ ShouldCall(idList)
             THEN << [field |-> schema[k].field, action |-> schema[k].action,
                      params |-> [id |-> idList, resultAsObject |-> TRUE, propFilter |-> TRUE]] >>
             ELSE <<>>) \o IssueCalls(d, schema, k + 1)

\* a replacement that puts the populated entities in reverse order
ReplaceInReversed(doc, field, populatedDocs) ==
    LET id == Get(doc, field)
    IN IF id.t = "seq"
       THEN LET found == SelectSeq(id.v, LAMBDA x : x \in DOMAIN populatedDocs)
            IN Put(doc, field,
                   Docs([i \in 1..Len(found) |-> populatedDocs[found[Len(found) + 1 - i]]]))
       ELSE IF id.t = "one" /\ id.v \in DOMAIN populatedDocs
            THEN Put(doc, field, Doc(populatedDocs[id.v]))
            ELSE Put(doc, field, Undef)

\* the .then of one sub-invocation: replace the identifiers of one doc
ReplaceIn(doc, field, populatedDocs) ==
    LET id == Get(doc, field)
    IN IF id.t = "seq"
       THEN LET found == SelectSeq(id.v, LAMBDA x : x \in DOMAIN populatedDocs)
            IN Put(doc, field, Docs([i \in 1..Len(found) |-> populatedDocs[found[i]]]))
       ELSE IF id.t = "one" /\ id.v \in DOMAIN populatedDocs
            THEN Put(doc, field, Doc(populatedDocs[id.v]))
            ELSE Put(doc, field, Undef)

\* a replacement written into a copy of the input taken when the
\* sub-invocation was issued: the last sub-invocation to settle wins
ReplaceFromSnapshot(d, field, populatedDocs) ==
    IF popDocs.t = "docs"
    THEN Docs([i \in 1..Len(popDocs.v) |-> ReplaceIn(popDocs.v[i], field, populatedDocs)])
    ELSE Doc(ReplaceIn(popDocs.v, field, populatedDocs))

\* items.forEach(doc => ...)
Replace(d, field, populatedDocs) ==
    IF d.t = "docs"
    THEN Docs([i \in 1..Len(d.v) |-> ReplaceIn(d.v[i], field, populatedDocs)])
    ELSE Doc(ReplaceIn(d.v, field, populatedDocs))

(***************************************************************************)
(* Service.resolveModel                                                    *)
(***************************************************************************)
\* the ctx.params a call may carry; "zz" is a code decodeID cannot decode,
\* code arrays hold decodable codes only
CallParams ==
    { [id |-> i, code |-> c, resultAsObject |-> r, populate |-> p, propFilter |-> f] :
        i \in {Undef, [t |-> "str0"], One(1), Ids(<<>>), Ids(<<1, 2>>)},
        c \in {Undef, [t |-> "code", v |-> "c1"], [t |-> "code", v |-> "zz"],
               [t |-> "codes", v |-> <<"c1", "c2">>]},
        r \in BOOLEAN, p \in BOOLEAN,
        f \in {Undef, [t |-> "true"], [t |-> "str", v |-> "id name"]} }

\* an identifier test that misses the empty array and the empty string
IsInvalidIdNullOnly(id) == id.t = "undef"

\* id == null || id.length == 0
IsInvalidId(id) ==
    \/ id.t = "undef"
    \/ id.t = "str0"
    \/ id.t = "seq" /\ Len(id.v) = 0

\* filterProperties(doc)
FilterProperties(doc) ==
    IF HasFilter(params.propFilter)
    THEN ToJSON(Doc(doc), IF params.propFilter.t = "str" THEN params.propFilter ELSE Undef).v
    ELSE doc

\* an object builder that keeps the first document seen under a key
RECURSIVE ToObjectKeepFirst(_, _)
ToObjectKeepFirst(seq, obj) ==
    IF seq = <<>> THEN obj
    ELSE ToObjectKeepFirst(Tail(seq),
                  [k \in DOMAIN obj \cup {Head(seq).id} |->
                      IF k \in DOMAIN obj THEN obj[k] ELSE FilterProperties(Head(seq))])

\* docs.forEach(doc => docsObj[doc.id] = filterProperties(doc))
RECURSIVE ToObject(_, _)
ToObject(seq, obj) ==
    IF seq = <<>> THEN obj
    ELSE ToObject(Tail(seq),
                  [k \in DOMAIN obj \cup {Head(seq).id} |->
                      IF k = Head(seq).id THEN FilterProperties(Head(seq)) ELSE obj[k]])

\* the sequences of at most n documents whose identifier is among ids
RECURSIVE SeqsUpTo(_, _)
SeqsUpTo(S, n) ==
    IF n = 0 THEN {<<>>}
    ELSE LET shorter == SeqsUpTo(S, n - 1)
         IN shorter \cup { Append(q, e) : q \in { x \in shorter : Len(x) = n - 1 }, e \in S }

\* what query.exec() may resolve with: the store is an external collaborator,
\* a set lookup returns matching documents in store-defined order, a point
\* lookup the matching document or null
StoreResults(lookup) ==
    IF lookup.kind = "find"
    THEN { [t |-> "models", v |-> q] :
             q \in SeqsUpTo({ e \in Entities : \E i \in 1..Len(lookup.id.v) : lookup.id.v[i] = e.id },
                            MaxDocs) }
    ELSE { [t |-> "model", v |-> e] : e \in { x \in Entities : x.id = lookup.id.v } } \cup {Undef}

\* a service action or remote caller invokes resolveModel(ctx)
ResolveModel ==
    /\ pc = "idle"
    /\ \E p \in CallParams : params' = p
    /\ pc' = "resolve"
    /\ UNCHANGED <<settings, collection, publishVars, check, transport, lookups, docs, calls, subStatus, err,
                   result, tjIn, tjFilter, tjOut, popDocs, settled, settleOrder, cause>>

\* first .then: resolve the identifier and issue the store query
FindDocs ==
    /\ pc = "resolve"
    /\ LET id == ResolveID(params)
       IN IF IsInvalidId(id)
          THEN /\ pc' = "failed"
               /\ err' = "InvalidIdentifier"
               /\ UNCHANGED lookups
          ELSE /\ lookups' = Append(lookups, [kind |-> IF id.t = "seq" THEN "find" ELSE "findById",
                                              id |-> id])
               /\ pc' = "exec"
               /\ UNCHANGED err
    /\ UNCHANGED <<settings, collection, publishVars, check, transport, params, docs, calls, subStatus,
                   result, tjIn, tjFilter, tjOut, popDocs, settled, settleOrder, cause>>

\* query.exec() resolves
StoreExec ==
    /\ pc = "exec"
    /\ \E r \in StoreResults(lookups[Len(lookups)]) : docs' = r
    /\ pc' = "json"
    /\ UNCHANGED <<settings, collection, publishVars, check, transport, params, lookups, calls, subStatus, err,
                   result, tjIn, tjFilter, tjOut, popDocs, settled, settleOrder, cause>>

\* second .then: docs.map(doc => doc.toJSON()) / docs.toJSON()
ConvertToJSON ==
    /\ pc = "json"
    /\ docs' = IF docs.t = "models" THEN Docs(docs.v)
               ELSE IF docs.t = "model" THEN Doc(docs.v)
               ELSE Undef
    /\ pc' = "populate"
    /\ UNCHANGED <<settings, collection, publishVars, check, transport, params, lookups, calls, subStatus, err,
                   result, tjIn, tjFilter, tjOut, popDocs, settled, settleOrder, cause>>

\* a populateModels that falls back to a schema of its own when the service
\* configures none
PopulateDefaultSchema ==
    /\ pc = "populate"
    /\ LET issued == IF /\ params.populate
                        /\ docs.t # "undef"
                     THEN IssueCalls(docs, PopulateSchema.v, 1)
                     ELSE <<>>
       IN /\ calls' = issued
          /\ subStatus' = [k \in 1..Len(issued) |-> "pending"]
          /\ settled' = [k \in 1..Len(issued) |-> Undef]
          /\ settleOrder' = <<>>
          /\ pc' = IF Len(issued) > 0 THEN "join" ELSE "shape"
    /\ popDocs' = IF params.populate THEN docs ELSE popDocs
    /\ UNCHANGED <<settings, collection, publishVars, check, transport, params, lookups, docs, err,
                   result, tjIn, tjFilter, tjOut, cause>>

\* third .then: populateModels(ctx, docs) up to the point where it waits
Populate ==
    /\ pc = "populate"
    /\ LET issued == IF /\ params.populate
                        /\ docs.t # "undef"
                        /\ settings.modelPopulates.t # "undef"
                     THEN IssueCalls(docs, settings.modelPopulates.v, 1)
                     ELSE <<>>
       IN /\ calls' = issued
          /\ subStatus' = [k \in 1..Len(issued) |-> "pending"]
          /\ settled' = [k \in 1..Len(issued) |-> Undef]
          /\ settleOrder' = <<>>
          /\ pc' = IF Len(issued) > 0 THEN "join" ELSE "shape"
    /\ popDocs' = IF params.populate THEN docs ELSE popDocs
    /\ UNCHANGED <<settings, collection, publishVars, check, transport, params, lookups, docs, err,
                   result, tjIn, tjFilter, tjOut, cause>>

\* a sub-invocation resolves with an object keyed by the identifiers it found
SubResolve(k) ==
    /\ pc \in {"join", "failed"}
    /\ subStatus[k] = "pending"
    /\ \E found \in SUBSET ({ calls[k].params.id[i] : i \in 1..Len(calls[k].params.id) } \ {Null}) :
          LET populatedDocs == [i \in found |-> Populated(calls[k].action, i)]
          IN /\ docs' = Replace(docs, calls[k].field, populatedDocs)
             /\ settled' = [settled EXCEPT ![k] = [t |-> "map", v |-> populatedDocs]]
    /\ settleOrder' = Append(settleOrder, k)
    /\ subStatus' = [subStatus EXCEPT ![k] = "ok"]
    /\ UNCHANGED <<settings, collection, publishVars, check, transport, pc, params, lookups, calls, err,
                   result, tjIn, tjFilter, tjOut, popDocs, cause>>

\* the errors a target action may reject with
SubErrors == {"TargetNotFound", "TargetTimeout"}

\* a rejection that is recorded but not passed on to the waiting call
SubRejectSwallowed(k) ==
    /\ pc \in {"join", "failed"}
    /\ subStatus[k] = "pending"
    /\ subStatus' = [subStatus EXCEPT ![k] = "failed"]
    /\ settleOrder' = Append(settleOrder, k)
    /\ \E e \in SubErrors : settled' = [settled EXCEPT ![k] = [t |-> "error", v |-> e]]
    /\ UNCHANGED <<settings, collection, publishVars, check, transport, params, lookups, docs, calls,
                   result, tjIn, tjFilter, tjOut, popDocs, pc, err, cause>>

\* a sub-invocation rejects: Promise.all rejects with the first rejection
SubReject(k) ==
    /\ pc \in {"join", "failed"}
    /\ subStatus[k] = "pending"
    /\ subStatus' = [subStatus EXCEPT ![k] = "failed"]
    /\ settleOrder' = Append(settleOrder, k)
    /\ \E e \in SubErrors :
          /\ settled' = [settled EXCEPT ![k] = [t |-> "error", v |-> e]]
          /\ IF pc = "join"
             THEN pc' = "failed" /\ err' = "DownstreamFailure" /\ cause' = e
             ELSE UNCHANGED <<pc, err, cause>>
    /\ UNCHANGED <<settings, collection, publishVars, check, transport, params, lookups, docs, calls,
                   result, tjIn, tjFilter, tjOut, popDocs>>

\* Promise.all(promises).then(() => docs)
PopulateJoin ==
    /\ pc = "join"
    /\ \A k \in 1..Len(subStatus) : subStatus[k] = "ok"
    /\ pc' = "shape"
    /\ UNCHANGED <<settings, collection, publishVars, check, transport, params, lookups, docs, calls, subStatus,
                   err, result, tjIn, tjFilter, tjOut, popDocs, settled, settleOrder, cause>>

\* last .then: object-keyed result and property filter
Shape ==
    /\ pc = "shape"
    /\ IF docs.t = "docs" /\ params.resultAsObject
       THEN /\ result' = [t |-> "map", v |-> ToObject(docs.v, <<>>)]
            /\ pc' = "done"
            /\ UNCHANGED err
       ELSE IF HasFilter(params.propFilter)
            THEN IF docs.t = "docs"
                 THEN /\ result' = Docs([i \in 1..Len(docs.v) |-> FilterProperties(docs.v[i])])
                      /\ pc' = "done"
                      /\ UNCHANGED err
                 ELSE /\ pc' = "failed"
                      /\ err' = "TypeError"
                      /\ UNCHANGED result
            ELSE /\ result' = docs
                 /\ pc' = "done"
                 /\ UNCHANGED err
    /\ UNCHANGED <<settings, collection, publishVars, check, transport, params, lookups, docs, calls, subStatus,
                   tjIn, tjFilter, tjOut, popDocs, settled, settleOrder, cause>>

\* the arguments of a direct toJSON call
ToJSONInputs ==
    { Doc(e) : e \in Entities } \cup { Docs(q) : q \in SeqsUpTo(Entities, MaxDocs) }

ToJSONFilters ==
    {Undef, [t |-> "str", v |-> "id name"], [t |-> "list", v |-> <<"name", "tags">>]}

\* an action handler calls toJSON(docs, propFilter)
ToJSONCall ==
    /\ pc = "idle"
    /\ \E d \in ToJSONInputs, f \in ToJSONFilters :
          /\ tjIn' = d
          /\ tjFilter' = f
          /\ tjOut' = ToJSON(d, f)
    /\ pc' = "tojson"
    /\ UNCHANGED <<settings, collection, publishVars, check, transport, params, lookups, docs, calls, subStatus,
                   err, result, popDocs, settled, settleOrder, cause>>

(***************************************************************************)
(* Service.checkModel / Service.checkModelOwner                            *)
(***************************************************************************)
ROLE_ADMIN == "admin"

\* the callers of a request: user.id and user.roles
Users ==
    { [id |-> i, roles |-> r] :
        i \in {Undef, One(1), One(2)},
        r \in {<<>>, <<"user">>, <<"admin">>, <<"user", "admin">>} }

\* user.roles.indexOf(role) != -1
HasRole(user, role) == \E i \in 1..Len(user.roles) : user.roles[i] = role

\* an ownership test without the administrator bypass
IsOwnerOnly(model, fieldName, user) == Get(model, fieldName) = user.id

\* model[fieldName] == user.id || user.roles.indexOf(C.ROLE_ADMIN) != -1
IsOwnerOrAdmin(model, fieldName, user) ==
    Get(model, fieldName) = user.id \/ HasRole(user, ROLE_ADMIN)

\* an action handler calls checkModel(model)
CheckModel ==
    /\ pc = "idle"
    /\ \E m \in {Undef} \cup { Doc(e) : e \in Entities } :
          /\ check' = [op |-> "checkModel", model |-> m, fieldName |-> Undefined, user |-> Undef]
          /\ IF m.t # "undef"
             THEN result' = m /\ UNCHANGED err
             ELSE err' = "ModelNotFound" /\ UNCHANGED result
    /\ pc' = "checked"
    /\ UNCHANGED <<settings, collection, publishVars, transport, params, lookups, docs, calls,
                   subStatus, popDocs, settled, settleOrder, cause, tjIn, tjFilter, tjOut>>

\* an action handler calls checkModelOwner(model, fieldName, user)
CheckModelOwner ==
    /\ pc = "idle"
    /\ \E e \in Entities, f \in {"author", "editor"}, u \in Users :
          /\ check' = [op |-> "checkModelOwner", model |-> Doc(e), fieldName |-> f, user |-> u]
          /\ IF IsOwnerOrAdmin(e, f, u)
             THEN result' = Doc(e) /\ UNCHANGED err
             ELSE err' = "Forbidden" /\ UNCHANGED result
    /\ pc' = "checked"
    /\ UNCHANGED <<settings, collection, publishVars, transport, params, lookups, docs, calls,
                   subStatus, popDocs, settled, settleOrder, cause, tjIn, tjFilter, tjOut>>

\* the service configurations a call may meet
CallSettings ==
    { [rest |-> TRUE, ws |-> TRUE, graphql |-> TRUE, namespace |-> Undefined, version |-> 0,
       hashedIdentity |-> h, permission |-> Undefined, role |-> Undefined,
       modelPropFilter |-> f, modelPopulates |-> s] :
        h \in BOOLEAN,
        f \in {Undef, [t |-> "str", v |-> "name tags"]},
        s \in {Undef, PopulateSchema} }

Init ==
    /\ settings \in CallSettings
    /\ collection \in { [decodeID |-> b] : b \in BOOLEAN }
    /\ actions = [i \in 1..NumActions |-> Declared(i, [isFunc |-> TRUE, name |-> Undefined,
                      permission |-> Undefined, role |-> Undefined, publish |-> TRUE,
                      defaultMethod |-> Undefined, needModel |-> FALSE])]
    /\ lastSchema = NoSchema
    /\ prevSchema = NoSchema
    /\ publishCount = 0
    /\ sockets = <<>>
    /\ resolvers = {}
    /\ transport = NoCall
    /\ IdleCall

Next ==
    \/ ResolveModel
    \/ FindDocs
    \/ StoreExec
    \/ ConvertToJSON
    \/ Populate
    \/ \E k \in 1..Len(calls) : SubResolve(k)
    \/ \E k \in 1..Len(calls) : SubReject(k)
    \/ PopulateJoin
    \/ Shape
    \/ ToJSONCall
    \/ CheckModel
    \/ CheckModelOwner

Spec == Init /\ [][Next]_vars

(***************************************************************************)
(* Properties of publishing (checked under SpecPublish)                    *)
(***************************************************************************)
RestRoutes == IF lastSchema.published /\ lastSchema.hasRest THEN lastSchema.rest ELSE <<>>

WsRoutes == IF lastSchema.published /\ lastSchema.hasWs THEN lastSchema.ws ELSE <<>>

\* a shortcut route has no action segment: /{namespace} or /{namespace}/:{idParamName}
IsShortcut(r) ==
    \/ Len(r.path) = 1
    \/ Len(r.path) = 2 /\ r.path[2] \in {":id", ":code"}

QualifiedName(a) == <<ServiceName, EffectiveName(a)>>

\* C1: every shortcut route of an action is at a lower index of the REST
\* route list than each generic route of the same action.
C1_ShortcutBeforeGeneric ==
    \A i, j \in 1..Len(RestRoutes) :
        ( /\ RestRoutes[i].action = RestRoutes[j].action
          /\ IsShortcut(RestRoutes[i])
          /\ ~IsShortcut(RestRoutes[j]) ) => i < j

\* the method/path pairs section 4.5 of the specification gives an action
ExpectedRoutes(a) ==
    LET ns == IF settings.namespace = Undefined THEN ServiceName ELSE settings.namespace
        idSeg == IF settings.hashedIdentity THEN ":code" ELSE ":id"
        generic == { [method |-> m, path |-> p] :
                       m \in {"get", "post"},
                       p \in { <<ns, EffectiveName(a)>>, <<ns, idSeg, EffectiveName(a)>> } }
        shortcut == IF a.defaultMethod = Undefined THEN {}
                    ELSE { [method |-> ToLowerCase(a.defaultMethod),
                            path |-> IF a.needModel THEN <<ns, idSeg>> ELSE <<ns>>] }
    IN generic \cup shortcut

RouteIndexesOf(a) == { k \in 1..Len(RestRoutes) : RestRoutes[k].action = QualifiedName(a) }

\* C2: with REST enabled, every action whose publish flag is not false has
\* exactly the routes GET/POST /{ns}/{action}, GET/POST /{ns}/:{idParamName}/{action}
\* and, iff defaultMethod is set, one shortcut route; there are no other routes.
C2_ExactRouteSet ==
    (lastSchema.published /\ lastSchema.hasRest) =>
        /\ \A i \in 1..Len(actions) :
              actions[i].publish =>
                /\ { [method |-> RestRoutes[k].method, path |-> RestRoutes[k].path] :
                        k \in RouteIndexesOf(actions[i]) } = ExpectedRoutes(actions[i])
                /\ Cardinality(RouteIndexesOf(actions[i])) = Cardinality(ExpectedRoutes(actions[i]))
        /\ \A k \in 1..Len(RestRoutes) :
              \E i \in 1..Len(actions) :
                  actions[i].publish /\ RestRoutes[k].action = QualifiedName(actions[i])

C2_Witness ==
    /\ lastSchema.published /\ lastSchema.hasRest
    /\ settings.hashedIdentity
    /\ \E i \in 1..Len(actions) :
          /\ actions[i].publish /\ actions[i].defaultMethod = "PUT" /\ actions[i].needModel
          /\ Cardinality(RouteIndexesOf(actions[i])) = 5
    /\ \E i \in 1..Len(actions) :
          /\ actions[i].publish /\ actions[i].defaultMethod = Undefined
          /\ Cardinality(RouteIndexesOf(actions[i])) = 4

\* C3: an action whose publish flag is false has no REST route, no channel
\* route, no channel event handler and no query resolver.
C3_UnpublishedExcluded ==
    \A i \in 1..Len(actions) :
        (actions[i].publish = FALSE) =>
            /\ \A k \in 1..Len(RestRoutes) : RestRoutes[k].action # QualifiedName(actions[i])
            /\ \A k \in 1..Len(WsRoutes) : WsRoutes[k].action # QualifiedName(actions[i])
            /\ \A s \in 1..Len(sockets) : \A e \in sockets[s] : e.action # actions[i].key
            /\ \A r \in resolvers : r.target # actions[i].key

\* C4: a second publishActions call in a row returns a descriptor set equal
\* to the first one (same REST routes in the same order, same channel routes),
\* so the second set replaces the first rather than extending it.
C4_RepublishIdempotent ==
    prevSchema.published => lastSchema = prevSchema

C4_Witness ==
    /\ prevSchema.published
    /\ lastSchema.hasRest /\ Len(lastSchema.rest) >= 5
    /\ lastSchema.hasWs /\ Len(lastSchema.ws) >= 1
    /\ \E i \in 1..Len(actions) : ~actions[i].isFunc /\ actions[i].publish


(***************************************************************************)
(* Properties of resolveModel, populateModels and toJSON (checked under    *)
(* Spec)                                                                   *)
(***************************************************************************)
\* the first .then of resolveModel has run
Resolved == pc \in {"exec", "json", "populate", "join", "shape", "done", "failed"}

\* C5: with hashedIdentity, a code in the params and no decode function,
\* resolveModel fails with InvalidIdentifier and issues no store lookup,
\* whatever the other params are.
C5_CodeWithoutDecodeFails ==
    ( /\ Resolved
      /\ settings.hashedIdentity
      /\ params.code.t \in {"code", "codes"}
      /\ ~collection.decodeID )
    => (pc = "failed" /\ err = "InvalidIdentifier" /\ lookups = <<>>)

\* C6: an absent, empty or zero-length identifier fails with InvalidIdentifier
\* before any lookup, population or shaping; otherwise a single identifier
\* causes exactly one point lookup and a sequence exactly one set lookup.
C6_InvalidIdentifierOrOneLookup ==
    Resolved =>
        LET id == ResolveID(params)
        IN IF id.t \in {"undef", "str0"} \/ (id.t = "seq" /\ id.v = <<>>)
           THEN /\ pc = "failed" /\ err = "InvalidIdentifier"
                /\ lookups = <<>> /\ calls = <<>>
                /\ docs = Undef /\ result = Undef
           ELSE /\ Len(lookups) = 1
                /\ lookups[1].id = id
                /\ lookups[1].kind = IF id.t = "seq" THEN "find" ELSE "findById"

C6_Witness ==
    /\ pc = "done"
    /\ params.code.t = "codes" /\ settings.hashedIdentity /\ collection.decodeID
    /\ Len(lookups) = 1 /\ lookups[1].kind = "find"
    /\ result.t = "docs" /\ Len(result.v) = MaxDocs

\* the entities of a result
ResultEntities(r) ==
    IF r.t = "doc" THEN {r.v}
    ELSE IF r.t = "docs" THEN { r.v[i] : i \in 1..Len(r.v) }
    ELSE IF r.t = "map" THEN { r.v[k] : k \in DOMAIN r.v }
    ELSE {}

\* the fields a propFilter of the call selects, or "all" when entities pass unfiltered
SelectedFields ==
    LET pf == IF params.propFilter.t = "str" THEN params.propFilter
              ELSE IF params.propFilter.t = "undef" THEN Undef
              ELSE settings.modelPropFilter
    IN IF pf.t = "undef" THEN {"all"}
       ELSE { Split(pf.v)[i] : i \in 1..Len(Split(pf.v)) }

\* entity e restricted to the selected fields
Selected(e) ==
    IF SelectedFields = {"all"} THEN e
    ELSE [f \in DOMAIN e \cap SelectedFields |-> e[f]]

\* the index of the last resolved entity with identifier k
LastWithId(k) ==
    CHOOSE i \in 1..Len(docs.v) :
        docs.v[i].id = k /\ \A j \in 1..Len(docs.v) : docs.v[j].id = k => j <= i

KeyedByIdentifier ==
    /\ result.t = "map"
    /\ DOMAIN result.v = { docs.v[i].id : i \in 1..Len(docs.v) }
    /\ \A k \in DOMAIN result.v : result.v[k] = Selected(docs.v[LastWithId(k)])

\* C7 as claimed: every completed call with resultAsObject = true returns a
\* mapping keyed by entity identifier, one entry per distinct identifier,
\* the later entity winning.
C7_ObjectResultForEveryCall ==
    (pc = "done" /\ params.resultAsObject /\ docs.t \in {"doc", "docs"}) =>
        /\ result.t = "map"
        /\ DOMAIN result.v = { e.id : e \in ResultEntities(docs) }

\* C7 amended: a completed call with resultAsObject = true whose identifier
\* is a sequence (set lookup) returns a mapping keyed by entity identifier
\* with exactly one entry per distinct identifier among the resolved
\* entities; of two entities sharing an identifier the later one, shaped by
\* the field filter, is the value under the key.
C7_ObjectResultForSetLookup ==
    (pc = "done" /\ params.resultAsObject /\ lookups[1].kind = "find") => KeyedByIdentifier

C7_Witness ==
    /\ pc = "done" /\ params.resultAsObject
    /\ result.t = "map"
    /\ Len(docs.v) = 2 /\ docs.v[1].id = docs.v[2].id /\ docs.v[1] # docs.v[2]
    /\ Cardinality(DOMAIN result.v) = 1

\* C8: with a field filter supplied, the call completes and every entity of
\* the result has only the named fields, for a single entity as well as for
\* a sequence or mapping.
C8_FilteredResultForAnyShape ==
    ( /\ pc \in {"done", "failed"}
      /\ params.propFilter.t = "str"
      /\ docs.t \in {"doc", "docs"}
      /\ err # "DownstreamFailure" )
    => /\ pc = "done"
       /\ \A e \in ResultEntities(result) :
             DOMAIN e \subseteq { Split(params.propFilter.v)[i] :
                                    i \in 1..Len(Split(params.propFilter.v)) }

\* the result of a completed resolveModel call holds the resolved entities as they are
ResultUnfiltered ==
    IF result.t = "map"
    THEN /\ DOMAIN result.v = { docs.v[i].id : i \in 1..Len(docs.v) }
         /\ \A k \in DOMAIN result.v : result.v[k] = docs.v[LastWithId(k)]
    ELSE result = docs

\* C9 as claimed: without a field filter every entity is returned with
\* exactly the fields it had, for every service configuration.
C9_NoFilterPassThroughAnyConfig ==
    /\ (pc = "tojson" /\ tjFilter.t = "undef") => tjOut = tjIn
    /\ (pc = "done" /\ params.propFilter.t = "undef") => ResultUnfiltered

\* C9 amended: toJSON called without a filter returns every entity with
\* exactly its input fields when the service configures no default
\* modelPropFilter; resolveModel called without propFilter returns every
\* entity unfiltered under every service configuration.
C9_NoFilterPassThrough ==
    /\ (pc = "tojson" /\ tjFilter.t = "undef" /\ settings.modelPropFilter.t = "undef")
          => tjOut = tjIn
    /\ (pc = "done" /\ params.propFilter.t = "undef") => ResultUnfiltered

C9_Witness ==
    /\ pc = "done" /\ params.propFilter.t = "undef"
    /\ settings.modelPropFilter.t = "str"
    /\ result.t = "docs" /\ Len(result.v) = MaxDocs
    /\ \E i \in 1..Len(result.v) : "author" \in DOMAIN result.v[i]

\* a field value that references at least one entity
NonEmptyReference(v) == v.t = "one" \/ (v.t = "seq" /\ Len(v.v) > 0)

\* the schema fields in which some input entity holds a non-empty reference
ReferencedFields ==
    IF popDocs.t = "undef" \/ settings.modelPopulates.t = "undef" THEN {}
    ELSE { settings.modelPopulates.v[k].field : k \in
             { n \in 1..Len(settings.modelPopulates.v) :
                 \E i \in 1..Len(Items(popDocs)) :
                     NonEmptyReference(Get(Items(popDocs)[i], settings.modelPopulates.v[n].field)) } }

\* populateModels has issued its sub-invocations
PopulateRan ==
    /\ params # NoParams
    /\ params.populate
    /\ \/ pc \in {"join", "shape", "done"}
       \/ pc = "failed" /\ err # "InvalidIdentifier"

\* C10: populateModels issues a sub-invocation for a schema field iff some
\* input entity holds a non-empty reference in it; the number of
\* sub-invocations is the number of such fields, not of schema entries.
C10_OneCallPerReferencedField ==
    PopulateRan =>
        /\ { calls[k].field : k \in 1..Len(calls) } = ReferencedFields
        /\ Len(calls) = Cardinality(ReferencedFields)

C10_Witness ==
    /\ PopulateRan
    /\ Len(calls) = 2
    /\ Len(settings.modelPopulates.v) = 3
    /\ popDocs.t = "docs" /\ Len(popDocs.v) = 2
    /\ \E i \in 1..2 : ~NonEmptyReference(Get(popDocs.v[i], "tags"))


\* the entities of m for the identifiers of ids that m has, in the order of ids
RECURSIVE MatchedInOrder(_, _)
MatchedInOrder(ids, m) ==
    IF ids = <<>> THEN <<>>
    ELSE (IF Head(ids) \in DOMAIN m THEN <<m[Head(ids)]>> ELSE <<>>)
            \o MatchedInOrder(Tail(ids), m)

\* every sub-invocation of the call has resolved
PopulationSucceeded ==
    /\ PopulateRan
    /\ Len(calls) > 0
    /\ \A k \in 1..Len(calls) : subStatus[k] = "ok"

\* C11: after a successful population, in every input entity a
\* sequence-valued schema field holds the populated entities of exactly those
\* of its identifiers that the sub-invocation result has, in the field's
\* original order, and a scalar-valued schema field holds the matching entity
\* or is absent if unmatched.
C11_FieldsReplacedInOrder ==
    PopulationSucceeded =>
        \A k \in 1..Len(calls) : \A i \in 1..Len(Items(popDocs)) :
            LET before == Get(Items(popDocs)[i], calls[k].field)
                after == Get(Items(docs)[i], calls[k].field)
                m == settled[k].v
            IN IF before.t = "seq"
               THEN after = Docs(MatchedInOrder(before.v, m))
               ELSE IF before.t = "one" /\ before.v \in DOMAIN m
                    THEN after = Doc(m[before.v])
                    ELSE after = Undef

C11_Witness ==
    /\ PopulationSucceeded
    /\ pc = "done"
    /\ \E k \in 1..Len(calls) : \E i \in 1..Len(Items(popDocs)) :
          /\ calls[k].field = "tags"
          /\ Get(Items(popDocs)[i], "tags") = Ids(<<1, 2>>)
          /\ DOMAIN settled[k].v = {1, 2}
          /\ Get(Items(docs)[i], "tags") =
                Docs(<<Populated("tags.get", 1), Populated("tags.get", 2)>>)
    /\ \E k \in 1..Len(calls) : \E i \in 1..Len(Items(popDocs)) :
          /\ calls[k].field = "author"
          /\ Get(Items(popDocs)[i], "author").t = "one"
          /\ settled[k].v = <<>>
          /\ Get(Items(docs)[i], "author") = Undef


\* C12: populateModels completes, with a result or a failure, only when
\* none of the sub-invocations it issued is still outstanding.
C12_SettlesAfterAllSubInvocations ==
    (PopulateRan /\ pc # "join") =>
        \A k \in 1..Len(calls) : subStatus[k] # "pending"

\* C13: if any sub-invocation fails, populateModels and the enclosing
\* resolveModel fail with the original error of a failed sub-invocation and
\* return no entities.
C13_SubFailureFailsCall ==
    (PopulateRan /\ \E k \in 1..Len(calls) : subStatus[k] = "failed") =>
        /\ pc = "failed"
        /\ err = "DownstreamFailure"
        /\ result = Undef
        /\ \E k \in 1..Len(calls) :
              subStatus[k] = "failed" /\ settled[k] = [t |-> "error", v |-> cause]

C13_Witness ==
    /\ pc = "failed" /\ err = "DownstreamFailure"
    /\ \E j, k \in 1..Len(calls) :
          /\ subStatus[j] = "ok"
          /\ subStatus[k] = "failed" /\ settled[k].v = cause


\* C14: checkModelOwner returns the entity iff the owner field equals the
\* caller's id or the caller's roles contain the administrator role, and
\* fails with Forbidden in every other case; an administrator passes
\* whatever the owner field holds.
C14_OwnerOrAdminPasses ==
    (pc = "checked" /\ check.op = "checkModelOwner") =>
        LET owner == IF check.fieldName \in DOMAIN check.model.v
                     THEN check.model.v[check.fieldName] ELSE Undef
            isAdmin == \E i \in 1..Len(check.user.roles) : check.user.roles[i] = "admin"
        IN /\ (owner = check.user.id \/ isAdmin)
                => (result = check.model /\ err = Undefined)
           /\ ~(owner = check.user.id \/ isAdmin)
                => (err = "Forbidden" /\ result = Undef)

C14_Witness ==
    /\ pc = "checked" /\ check.op = "checkModelOwner"
    /\ check.user = [id |-> One(2), roles |-> <<"user", "admin">>]
    /\ check.fieldName = "author"
    /\ Get(check.model.v, "author") = One(1)
    /\ result = check.model

\* C15: checkModel fails with ModelNotFound when the resolved entity is
\* missing or null and otherwise returns the same entity; a single-identifier
\* resolve that matches no stored entity completes with a missing entity
\* rather than a non-entity value or an unrelated error.
C15_MissingEntityIsModelNotFound ==
    /\ (pc = "checked" /\ check.op = "checkModel") =>
          IF check.model = Undef
          THEN err = "ModelNotFound" /\ result = Undef
          ELSE result = check.model /\ err = Undefined
    /\ ( /\ pc \in {"done", "failed"}
         /\ lookups # <<>>
         /\ lookups[1].kind = "findById"
         /\ docs = Undef )
       => (pc = "done" /\ result = Undef)


\* the call a transport handler served has settled
Completed == transport.pc \in {"done", "rejected"}

\* C16: on the channel and query transports the stages of a call run in the
\* order resolveModel, checkPermission, handler, each at most once; the
\* handler runs only if both earlier stages succeeded, and once a stage has
\* failed no later stage of that call runs.
C16_StagesInOrderAbortOnFailure ==
    LET tr == transport.trace
    IN /\ Len(tr) <= Len(Stages)
       /\ \A i \in 1..Len(tr) : tr[i] = Stages[i]
       /\ (\E i \in 1..Len(tr) : tr[i] = "handler")
            => transport.failedAt \notin {"resolveModel", "checkPermission"}
       /\ transport.failedAt # Undefined
            => (Len(tr) > 0 /\ tr[Len(tr)] = transport.failedAt)

C16_Witness ==
    /\ Completed
    /\ transport.kind = "graphql"
    /\ transport.failedAt = "checkPermission"
    /\ transport.trace = <<"resolveModel", "checkPermission">>

C18_DescriptorsUnchanged ==
    [][\A i \in 1..Len(actions) :
          /\ actions'[i].name = actions[i].name
          /\ actions'[i].permission = actions[i].permission
          /\ actions'[i].role = actions[i].role]_vars


\* C19: when the service configures no population schema, or the input is
\* null, populateModels issues no sub-invocation and resolves with its input
\* unchanged.
C19_NoSchemaOrNullInputIsNoOp ==
    (PopulateRan /\ (settings.modelPopulates.t = "undef" \/ popDocs.t = "undef"))
        => /\ calls = <<>>
           /\ subStatus = <<>>
           /\ pc # "join"
           /\ docs = popDocs

C19_Witness ==
    /\ PopulateRan
    /\ pc = "done"
    /\ settings.modelPopulates.t = "undef"
    /\ popDocs.t = "docs" /\ Len(popDocs.v) = 2
    /\ \E i \in 1..2 : Get(popDocs.v[i], "author") = One(1)
    /\ calls = <<>>

\* the identifiers an entity references in a field
ReferencedBy(doc, field) ==
    LET v == Get(doc, field)
    IN IF v.t = "one" THEN {v.v}
       ELSE IF v.t = "seq" THEN { v.v[i] : i \in 1..Len(v.v) } \ {Null}
       ELSE {}

\* C20: the identifier list of every sub-invocation holds exactly the
\* identifiers its field references across all input entities, scalar or
\* array member, without duplicates and without null members, and the
\* params sent are exactly { id, resultAsObject: true, propFilter: true }.
C20_ExactIdentifierSet ==
    PopulateRan =>
        \A k \in 1..Len(calls) :
            LET ids == calls[k].params.id
            IN /\ { ids[i] : i \in 1..Len(ids) }
                    = UNION { ReferencedBy(Items(popDocs)[i], calls[k].field) :
                                i \in 1..Len(Items(popDocs)) }
               /\ \A i, j \in 1..Len(ids) : i # j => ids[i] # ids[j]
               /\ \A i \in 1..Len(ids) : ids[i] # Null
               /\ calls[k].params = [id |-> ids, resultAsObject |-> TRUE, propFilter |-> TRUE]


\* the schema fields a sub-invocation was issued for
CalledFields == { calls[k].field : k \in 1..Len(calls) }

\* an input entity with every called field replaced from the result its
\* sub-invocation settled with
ExpectedPopulated(doc) ==
    [f \in DOMAIN doc \cup CalledFields |->
        IF f \in CalledFields
        THEN LET k == CHOOSE n \in 1..Len(calls) : calls[n].field = f
                 before == Get(doc, f)
                 m == settled[k].v
             IN IF before.t = "seq" THEN Docs(MatchedInOrder(before.v, m))
                ELSE IF before.t = "one" /\ before.v \in DOMAIN m THEN Doc(m[before.v])
                ELSE Undef
        ELSE doc[f]]

\* C21: every sub-invocation of a populateModels call has been issued before
\* any of them settles, and after a successful population the entities are
\* the input entities with each called field replaced from its own
\* sub-invocation's result, whatever the order in which the sub-invocations
\* settled.
C21_IssuedTogetherOrderIndependent ==
    /\ PopulateRan =>
          /\ CalledFields = ReferencedFields
          /\ Len(subStatus) = Len(calls)
          /\ \A i \in 1..Len(settleOrder) : settleOrder[i] \in 1..Len(calls)
    /\ PopulationSucceeded =>
          /\ { settleOrder[i] : i \in 1..Len(settleOrder) } = 1..Len(calls)
          /\ Len(settleOrder) = Len(calls)
          /\ docs = IF popDocs.t = "docs"
                    THEN Docs([i \in 1..Len(popDocs.v) |-> ExpectedPopulated(popDocs.v[i])])
                    ELSE Doc(ExpectedPopulated(popDocs.v))

C21_Witness ==
    /\ PopulationSucceeded
    /\ pc = "done"
    /\ settleOrder = <<2, 1>>
    /\ calls[1].field = "author" /\ calls[2].field = "tags"
    /\ settled[1].v # <<>> /\ settled[2].v # <<>>
    /\ popDocs.t = "docs" /\ Len(popDocs.v) = 2


\* the event /{namespace}/{action} of action i, under version prefix v (0: none)
EventOf(i, v) ==
    [version |-> v, cmd |-> <<Namespace, EffectiveName(actions[i])>>, action |-> actions[i].key]

\* C22: every connection binds each action to /{namespace}/{action}, and to
\* /v{version}/{namespace}/{action} as well exactly when the service declares
\* a version; a call on either name runs the pipeline of the action the
\* event was bound for.
C22_PlainAndVersionedEvents ==
    /\ \A s \in 1..Len(sockets) :
          /\ \A i \in 1..Len(actions) : EventOf(i, 0) \in sockets[s]
          /\ settings.version # 0 =>
                \A i \in 1..Len(actions) : EventOf(i, settings.version) \in sockets[s]
          /\ settings.version = 0 => \A e \in sockets[s] : e.version = 0
          /\ \A e \in sockets[s] :
                \E i \in 1..Len(actions) : e \in {EventOf(i, 0), EventOf(i, settings.version)}
    /\ transport.kind = "socket" =>
          /\ transport.version \in {0, settings.version}
          /\ \E i \in 1..Len(actions) : actions[i].key = transport.action
          /\ \A i \in 1..Len(transport.trace) : transport.trace[i] = Stages[i]
          /\ (Completed /\ transport.failedAt = Undefined)
                => /\ transport.trace = Stages
                   /\ transport.json = [t |-> "json", v |-> transport.action]
                   /\ transport.hasCallback => transport.reply = transport.json

C22_Witness ==
    /\ settings.version = 1
    /\ Len(sockets) = 1
    /\ Cardinality(sockets[1]) = 2 * NumActions
    /\ transport.kind = "socket"
    /\ transport.version = 1
    /\ transport.hasCallback
    /\ Completed
    /\ transport.trace = Stages
    /\ transport.reply = [t |-> "json", v |-> transport.action]


\* C23: on both transports the 'request' event of a call is followed by
\* exactly one 'response' event whether the call succeeds or fails at any
\* stage, and 'response' is not emitted before the handler's result or the
\* error of the failed stage exists.
C23_RequestFollowedByOneResponse ==
    /\ transport.emitted \in {<<>>, <<"request">>, <<"request", "response">>}
    /\ transport.pc # "idle" => Len(transport.emitted) >= 1
    /\ Completed => transport.emitted = <<"request", "response">>
    /\ Len(transport.emitted) = 2
          => (transport.json # Undef \/ transport.error # Undefined)

====
